---------------------------- MODULE Spec2Model ----------------------------
(***************************************************************************)
(* Signaling relay of webrtc-mvp (the variant with room-id validation,     *)
(* same-room signal check and per-room user names).                        *)
(*                                                                         *)
(* State: the three process-wide maps (roomIdToSocketIds,                  *)
(* socketIdToUserName, userActivity), the closure variable currentRoomId   *)
(* of every connection, the transport's room membership of every socket    *)
(* (socket.io: socket.join / socket.leave, plus the room named by the      *)
(* socket's own id that every socket is put in on connect and that         *)
(* io.to(id) addresses), and the wall clock.                               *)
(*                                                                         *)
(* Every handler runs to completion (single-threaded event loop), so each  *)
(* handler is one action.  `sent' holds the emissions of the handler that  *)
(* has just run, in order, and `last' names that handler and its input,    *)
(* until the transport has delivered them and the event loop is idle.      *)
(***************************************************************************)
EXTENDS Integers, Sequences, FiniteSets, TLC

VARIABLES
    status,              \* socket -> "new" | "open" | "closed"
    currentRoomId,       \* socket -> room id, NULL when none (closure variable)
    roomIdToSocketIds,   \* Map roomId -> Set(socketId), a Set keeps insertion order
    socketIdToUserName,  \* Map socketId -> userName
    userActivity,        \* Map socketId -> activity record
    socketRooms,         \* socket -> set of transport rooms it is in (socket.rooms)
    now,                 \* Date.now()
    sent,                \* emissions of the last handler, in order
    last,                \* the handler that has just run: [op, id, input, threw]
    accepted             \* socket -> the joins and chats accepted from it (observer)

vars == <<status, currentRoomId, roomIdToSocketIds, socketIdToUserName,
          userActivity, socketRooms, now, sent, last, accepted>>

(***************************************************************************)
(* Bounds                                                                  *)
(***************************************************************************)
MaxSockets == 3
MaxRooms == 1
MaxAliased == 1
MaxNames == 1
MaxJoins == 2
MaxTimedSockets == 1
MaxTimedJoins == 6
MaxTimedChats == 11
MaxPeers == 2
MaxPeerJoins == 1
MaxPeerChats == 1

(***************************************************************************)
(* Program constants                                                       *)
(***************************************************************************)
MAX_MESSAGES_PER_MINUTE == 10
MAX_ROOMS_PER_HOUR == 5
MIN_TIME_BETWEEN_MESSAGES == 1000
MAX_MESSAGE_LENGTH == 500
MAX_USERNAME_LENGTH == 20
MinRoomIdLength == 3
MaxRoomIdLength == 32
MinTrimmedNameLength == 2
MessageWindowMs == 60000
JoinWindowMs == 3600000
SpamRunLength == 10

(***************************************************************************)
(* Strings are sequences of one-character strings; null, undefined and ""  *)
(* are all falsy and are the empty sequence.                               *)
(***************************************************************************)
NULL == << >>

Range(q) == {q[i] : i \in DOMAIN q}

DigitChars == <<"1", "2", "3", "4", "5", "6", "7", "8", "9">>

Letters == {"a", "b", "c", "d", "e", "f", "g", "h", "i", "j", "k", "l", "m",
            "n", "o", "p", "q", "r", "s", "t", "u", "v", "w", "x", "y", "z",
            "A", "B", "C", "D", "E", "F", "G", "H", "I", "J", "K", "L", "M",
            "N", "O", "P", "Q", "R", "S", "T", "U", "V", "W", "X", "Y", "Z"}

Digits == {"0", "1", "2", "3", "4", "5", "6", "7", "8", "9"}

\* the complement of the class [^a-zA-Z0-9_-]
RoomIdChars == Letters \cup Digits \cup {"_", "-"}

\* the class [<>\"'&]
InvalidNameChars == {"<", ">", "\"", "'", "&"}

WhiteSpace == {" ", "\t", "\n"}

\* socket.id: the transport's identifier, a string over the base64url alphabet
SocketId(i) == <<"s", "k", DigitChars[i]>>

SocketIds == {SocketId(i) : i \in 1..MaxSockets}

RoomName(j) == <<"r", "m", "_", DigitChars[j]>>

RoomNames == {RoomName(j) : j \in 1..MaxRooms}

UserName(k) == <<"u", DigitChars[k]>>

UserNames == {UserName(k) : k \in 1..MaxNames}


\* room ids a client may choose that are also the id of a socket: both pass
\* the room-id check, and the transport keeps rooms and socket ids in one
\* name space
AliasedRoomIds == {SocketId(i) : i \in 1..MaxAliased}

ValidRoomIds == RoomNames \cup AliasedRoomIds

\* "ab" (too short), "" and a string with a character outside the class
InvalidRoomIds == {<<"a", "b">>, NULL, <<"r", "m", "!">>}

RoomIdInputs == ValidRoomIds \cup InvalidRoomIds

\* "x" trims to fewer than two characters, "<u1" holds a forbidden character
InvalidUserNames == {<<"x", " ">>, <<"<", "u", "1">>}

UserNameInputs == UserNames \cup InvalidUserNames

\* validateMessage tests the text against [A-Z]
UpperLetters == {"A", "B", "C", "D", "E", "F", "G", "H", "I", "J", "K", "L", "M",
                 "N", "O", "P", "Q", "R", "S", "T", "U", "V", "W", "X", "Y", "Z"}

\* the author of a message whose sender has no display name: the label
\* of the chat-message handler, transliterated
GuestLabel == <<"G", "o", "s", "t">>

\* chat texts: "hi", " " (blank after trim), "" and a link
TextInputs == {<<"h", "i">>, <<" ">>, NULL,
               <<"h", "t", "t", "p", ":", "/", "/", "x">>}

\* the timestamp field of a chat message: a number the client chooses
TimestampInputs == {7}

\* an author field a client may add to a chat message: none, or a name
AuthorInputs == {NULL} \cup UserNames

\* signal payloads: an object with a type, an object without one, undefined
DataInputs == {"offer", "undefined"}

\* the `to' of a signal: a socket id, a room name, or nothing
SignalTargets == SocketIds \cup RoomNames \cup {NULL}

(***************************************************************************)
(* Map and Set of JavaScript                                               *)
(***************************************************************************)
EmptyMap == [k \in {} |-> NULL]

MapHas(m, k) == k \in DOMAIN m

MapSet(m, k, v) == [x \in (DOMAIN m) \cup {k} |-> IF x = k THEN v ELSE m[x]]

MapDelete(m, k) == [x \in (DOMAIN m) \ {k} |-> m[x]]

\* SetAdd that puts a new element first
SetAddFirst(q, e) == IF e \in Range(q) THEN q ELSE <<e>> \o q

\* Set.add: appends unless present (insertion order is kept)
SetAdd(q, e) == IF e \in Range(q) THEN q ELSE Append(q, e)

\* Set.delete
SetDelete(q, e) == SelectSeq(q, LAMBDA x : x # e)

(***************************************************************************)
(* Validator                                                               *)
(***************************************************************************)
\* ValidRoomId without the lower bound on the length
ValidRoomIdAnyLength(roomId) ==
    /\ roomId # NULL
    /\ Len(roomId) <= MaxRoomIdLength
    /\ \A i \in DOMAIN roomId : roomId[i] \in RoomIdChars

\* the negation of the condition of the join and leave handlers
ValidRoomId(roomId) ==
    /\ roomId # NULL
    /\ Len(roomId) >= MinRoomIdLength
    /\ Len(roomId) <= MaxRoomIdLength
    /\ \A i \in DOMAIN roomId : roomId[i] \in RoomIdChars

RECURSIVE TrimStart(_)
TrimStart(str) ==
    IF str # << >> /\ Head(str) \in WhiteSpace THEN TrimStart(Tail(str)) ELSE str

RECURSIVE TrimEnd(_)
TrimEnd(str) ==
    IF str # << >> /\ str[Len(str)] \in WhiteSpace
    THEN TrimEnd(SubSeq(str, 1, Len(str) - 1))
    ELSE str

Trim(str) == TrimEnd(TrimStart(str))

validateUserName(userName) ==
    /\ userName # NULL
    /\ Len(userName) <= MAX_USERNAME_LENGTH
    /\ Len(Trim(userName)) >= MinTrimmedNameLength
    /\ \A i \in DOMAIN userName : userName[i] \notin InvalidNameChars

\* text[i..i+n-1] exists and all its characters are of the class
RunAt(text, i, n, class) ==
    /\ i + n - 1 <= Len(text)
    /\ \A k \in i..(i + n - 1) : text[k] \in class

\* /(.)\1{10,}/ : a character other than a line break, then ten more of it
RepeatedRun(text) ==
    \E i \in DOMAIN text :
        text[i] # "\n" /\ RunAt(text, i, SpamRunLength + 1, {text[i]})

\* /https?:\/\/[^\s]+/gi : http or https in any case, "://", a non-space
HasLink(text) ==
    \E i \in DOMAIN text :
        /\ i + 3 <= Len(text)
        /\ text[i] \in {"h", "H"} /\ text[i + 1] \in {"t", "T"}
        /\ text[i + 2] \in {"t", "T"} /\ text[i + 3] \in {"p", "P"}
        /\ LET j == IF i + 4 <= Len(text) /\ text[i + 4] \in {"s", "S"}
                    THEN i + 5 ELSE i + 4
               After(k) == /\ k + 3 <= Len(text)
                           /\ text[k] = ":" /\ text[k + 1] = "/" /\ text[k + 2] = "/"
                           /\ text[k + 3] \notin WhiteSpace
           IN  After(j) \/ After(i + 4)

\* /[A-Z]{10,}/
CapsRun(text) ==
    \E i \in DOMAIN text : RunAt(text, i, SpamRunLength, UpperLetters)

\* /[0-9]{10,}/
DigitRun(text) ==
    \E i \in DOMAIN text : RunAt(text, i, SpamRunLength, Digits)

validateMessage(text) ==
    /\ text # NULL
    /\ Len(text) <= MAX_MESSAGE_LENGTH
    /\ Len(Trim(text)) # 0
    /\ ~RepeatedRun(text)
    /\ ~HasLink(text)
    /\ ~CapsRun(text)
    /\ ~DigitRun(text)

(***************************************************************************)
(* Activity tracker                                                        *)
(***************************************************************************)
initializeUserActivity(ua, socketId, t) ==
    MapSet(ua, socketId,
           [lastActivity |-> t, messageCount |-> 0, lastMessageReset |-> t,
            roomJoins |-> 0, lastRoomJoinReset |-> t])

\* checkRoomJoinRate that never starts a new window
checkRoomJoinRateNoReset(ua, socketId, t) ==
    IF ~MapHas(ua, socketId)
    THEN [ok |-> TRUE, ua |-> ua]
    ELSE LET activity == ua[socketId]
         IN  IF activity.roomJoins >= MAX_ROOMS_PER_HOUR
             THEN [ok |-> FALSE, ua |-> ua]
             ELSE [ok |-> TRUE,
                   ua |-> MapSet(ua, socketId,
                                 [activity EXCEPT !.roomJoins = @ + 1])]

\* the returned value and the tracker as the call leaves it
checkRoomJoinRate(ua, socketId, t) ==
    IF ~MapHas(ua, socketId)
    THEN [ok |-> TRUE, ua |-> ua]
    ELSE LET activity == ua[socketId]
             reset == IF t - activity.lastRoomJoinReset > JoinWindowMs
                      THEN [activity EXCEPT !.roomJoins = 0,
                                            !.lastRoomJoinReset = t]
                      ELSE activity
         IN  IF reset.roomJoins >= MAX_ROOMS_PER_HOUR
             THEN [ok |-> FALSE, ua |-> MapSet(ua, socketId, reset)]
             ELSE [ok |-> TRUE,
                   ua |-> MapSet(ua, socketId,
                                 [reset EXCEPT !.roomJoins = @ + 1])]

\* the returned value and the tracker as the call leaves it
checkMessageRate(ua, socketId, t) ==
    IF ~MapHas(ua, socketId)
    THEN [ok |-> TRUE, ua |-> ua]
    ELSE LET activity == ua[socketId] IN
         IF t - activity.lastActivity < MIN_TIME_BETWEEN_MESSAGES
         THEN [ok |-> FALSE, ua |-> ua]
         ELSE LET reset == IF t - activity.lastMessageReset > MessageWindowMs
                           THEN [activity EXCEPT !.messageCount = 0,
                                                 !.lastMessageReset = t]
                           ELSE activity
              IN  IF reset.messageCount >= MAX_MESSAGES_PER_MINUTE
                  THEN [ok |-> FALSE, ua |-> MapSet(ua, socketId, reset)]
                  ELSE [ok |-> TRUE,
                        ua |-> MapSet(ua, socketId,
                                      [reset EXCEPT !.messageCount = @ + 1])]

(***************************************************************************)
(* Transport (socket.io)                                                   *)
(***************************************************************************)
\* the sockets in a transport room
InRoom(sr, room) == {t \in SocketIds : room \in sr[t]}

\* socket.emit(ev, arg)
EmitSelf(s, ev, arg) == [ev |-> ev, target |-> s, to |-> {s}, arg |-> arg]

\* EmitRoom that does not leave the emitter out
EmitRoomAll(sr, s, room, ev, arg) ==
    [ev |-> ev, target |-> room, to |-> InRoom(sr, room), arg |-> arg]

\* socket.to(room).emit(ev, arg): the room's sockets except the emitter
EmitRoom(sr, s, room, ev, arg) ==
    [ev |-> ev, target |-> room, to |-> InRoom(sr, room) \ {s}, arg |-> arg]

\* io.to(room).emit(ev, arg): every socket of the room
EmitIo(sr, room, ev, arg) ==
    [ev |-> ev, target |-> room, to |-> InRoom(sr, room), arg |-> arg]

\* ErrorEvent that carries no category
ErrorEventUntyped(s, type) == EmitSelf(s, "error", [type |-> ""])

ErrorEvent(s, type) == EmitSelf(s, "error", [type |-> type])

(***************************************************************************)
(* The handlers.  A handler maps the relay's state st (the maps, the        *)
(* closure variables and the transport rooms) and its input to the state   *)
(* it leaves, the emissions it made and whether it threw.                  *)
(***************************************************************************)
State ==
    [currentRoomId |-> currentRoomId,
     roomIdToSocketIds |-> roomIdToSocketIds,
     socketIdToUserName |-> socketIdToUserName,
     userActivity |-> userActivity,
     socketRooms |-> socketRooms]

Result(st, out, threw) == [st |-> st, sent |-> out, threw |-> threw]

\* RemovePeer without "if (peers.size === 0) map.delete(room)"
RemovePeerKeepsEmptyRoom(rooms, sr, s, room) ==
    IF MapHas(rooms, room)
    THEN [rooms |-> MapSet(rooms, room, SetDelete(rooms[room], s)),
          sent |-> <<EmitRoom(sr, s, room, "peer-left", [socketId |-> s])>>]
    ELSE [rooms |-> rooms, sent |-> << >>]

\* const peers = map.get(room); if (peers) { peers.delete(id);
\*   socket.to(room).emit('peer-left', ...); if (peers.size === 0) map.delete(room) }
RemovePeer(rooms, sr, s, room) ==
    IF MapHas(rooms, room)
    THEN LET peers == SetDelete(rooms[room], s)
         IN  [rooms |-> IF Len(peers) = 0
                        THEN MapDelete(rooms, room)
                        ELSE MapSet(rooms, room, peers),
              sent |-> <<EmitRoom(sr, s, room, "peer-left", [socketId |-> s])>>]
    ELSE [rooms |-> rooms, sent |-> << >>]

\* LeavePrevious that keeps the previous room's entry when it becomes empty
LeavePreviousKeepsEmptyRoom(st, s) ==
    LET cur == st.currentRoomId[s] IN
    IF cur = NULL
    THEN [rooms |-> st.roomIdToSocketIds, sr |-> st.socketRooms, sent |-> << >>]
    ELSE LET sr1 == [st.socketRooms EXCEPT ![s] = @ \ {cur}]
             left == RemovePeerKeepsEmptyRoom(st.roomIdToSocketIds, sr1, s, cur)
         IN  [rooms |-> left.rooms, sr |-> sr1, sent |-> left.sent]

\* LeavePrevious that tells nobody
LeavePreviousSilent(st, s) ==
    LET cur == st.currentRoomId[s] IN
    IF cur = NULL
    THEN [rooms |-> st.roomIdToSocketIds, sr |-> st.socketRooms, sent |-> << >>]
    ELSE LET sr1 == [st.socketRooms EXCEPT ![s] = @ \ {cur}]
             left == RemovePeer(st.roomIdToSocketIds, sr1, s, cur)
         IN  [rooms |-> left.rooms, sr |-> sr1, sent |-> << >>]

\* LeavePrevious that leaves the previous room's member set as it is
LeavePreviousSkipped(st, s) ==
    [rooms |-> st.roomIdToSocketIds, sr |-> st.socketRooms, sent |-> << >>]

\* the block "if (currentRoomId) { socket.leave(currentRoomId); ... }" of join
LeavePrevious(st, s) ==
    LET cur == st.currentRoomId[s] IN
    IF cur = NULL
    THEN [rooms |-> st.roomIdToSocketIds, sr |-> st.socketRooms, sent |-> << >>]
    ELSE LET sr1 == [st.socketRooms EXCEPT ![s] = @ \ {cur}]
             left == RemovePeer(st.roomIdToSocketIds, sr1, s, cur)
         IN  [rooms |-> left.rooms, sr |-> sr1, sent |-> left.sent]

\* onJoin that leaves the previous room before it asks the join ceiling
onJoinLeavesFirst(st, s, roomId, t) ==
    IF ~ValidRoomId(roomId)
    THEN Result(st, <<ErrorEvent(s, "room")>>, FALSE)
    ELSE
    LET rate == checkRoomJoinRate(st.userActivity, s, t)
        left == LeavePrevious(st, s)
    IN
    IF ~rate.ok
    THEN Result([st EXCEPT !.userActivity = rate.ua,
                           !.roomIdToSocketIds = left.rooms,
                           !.socketRooms = left.sr,
                           !.currentRoomId[s] = NULL],
                left.sent \o <<ErrorEvent(s, "room")>>, FALSE)
    ELSE
    LET rooms1 == IF MapHas(left.rooms, roomId)
                  THEN left.rooms
                  ELSE MapSet(left.rooms, roomId, << >>)
        peers == SetAdd(rooms1[roomId], s)
        sr2 == [left.sr EXCEPT ![s] = @ \cup {roomId}]
        existingPeers == SelectSeq(peers, LAMBDA id : id # s)
    IN  Result([st EXCEPT !.userActivity = rate.ua,
                          !.roomIdToSocketIds = MapSet(rooms1, roomId, peers),
                          !.socketRooms = sr2,
                          !.currentRoomId[s] = roomId],
               left.sent \o
               <<EmitSelf(s, "peers-list", [peers |-> existingPeers]),
                 EmitRoom(sr2, s, roomId, "peer-joined", [socketId |-> s])>>,
               FALSE)

onJoin(st, s, roomId, t) ==
    IF ~ValidRoomId(roomId)
    THEN Result(st, <<ErrorEvent(s, "room")>>, FALSE)
    ELSE
    LET rate == checkRoomJoinRate(st.userActivity, s, t) IN
    IF ~rate.ok
    THEN Result([st EXCEPT !.userActivity = rate.ua],
                <<ErrorEvent(s, "room")>>, FALSE)
    ELSE
    LET left == LeavePrevious(st, s)
        rooms1 == IF MapHas(left.rooms, roomId)
                  THEN left.rooms
                  ELSE MapSet(left.rooms, roomId, << >>)
        peers == SetAdd(rooms1[roomId], s)
        \* socket.join(roomId)
        sr2 == [left.sr EXCEPT ![s] = @ \cup {roomId}]
        existingPeers == SelectSeq(peers, LAMBDA id : id # s)
    IN  Result([st EXCEPT !.userActivity = rate.ua,
                          !.roomIdToSocketIds = MapSet(rooms1, roomId, peers),
                          !.socketRooms = sr2,
                          !.currentRoomId[s] = roomId],
               left.sent \o
               <<EmitSelf(s, "peers-list", [peers |-> existingPeers]),
                 EmitRoom(sr2, s, roomId, "peer-joined", [socketId |-> s])>>,
               FALSE)

\* ClearCurrent that forgets the current room on every leave
ClearCurrentAlways(cur, roomId) == NULL

\* if (currentRoomId === roomId) currentRoomId = null
ClearCurrent(cur, roomId) == IF cur = roomId THEN NULL ELSE cur

onLeave(st, s, roomId) ==
    IF ~ValidRoomId(roomId)
    THEN Result(st, <<ErrorEvent(s, "room")>>, FALSE)
    ELSE
    LET left == RemovePeer(st.roomIdToSocketIds, st.socketRooms, s, roomId)
    IN  Result([st EXCEPT !.roomIdToSocketIds = left.rooms,
                          \* socket.leave(roomId)
                          !.socketRooms[s] = @ \ {roomId},
                          !.currentRoomId[s] = ClearCurrent(@, roomId),
                          !.userActivity = MapDelete(@, s)],
               left.sent, FALSE)

\* onDisconnect that leaves the display name in the registry
onDisconnectKeepsName(st, s) ==
    LET cur == st.currentRoomId[s]
        left == IF cur # NULL
                THEN RemovePeer(st.roomIdToSocketIds, st.socketRooms, s, cur)
                ELSE [rooms |-> st.roomIdToSocketIds, sent |-> << >>]
    IN  Result([st EXCEPT !.roomIdToSocketIds = left.rooms,
                          !.userActivity = MapDelete(@, s)],
               left.sent, FALSE)

onDisconnect(st, s) ==
    LET cur == st.currentRoomId[s]
        left == IF cur # NULL
                THEN RemovePeer(st.roomIdToSocketIds, st.socketRooms, s, cur)
                ELSE [rooms |-> st.roomIdToSocketIds, sent |-> << >>]
    IN  Result([st EXCEPT !.roomIdToSocketIds = left.rooms,
                          !.socketIdToUserName = MapDelete(@, s),
                          !.userActivity = MapDelete(@, s)],
               left.sent, FALSE)

\* the loop of the signal handler: some room holds both ids
SameRoom(rooms, a, b) ==
    \E roomId \in DOMAIN rooms :
        a \in Range(rooms[roomId]) /\ b \in Range(rooms[roomId])

onSignal(st, s, to, data) ==
    IF to = NULL
    THEN Result(st, << >>, FALSE)
    ELSE IF ~SameRoom(st.roomIdToSocketIds, s, to)
    THEN Result(st, <<ErrorEvent(s, "signal")>>, FALSE)
    \* console.log(..., data.type || 'candidate') reads a property of data
    ELSE IF data = "undefined"
    THEN Result(st, << >>, TRUE)
    ELSE Result(st,
                <<EmitIo(st.socketRooms, to, "signal",
                         [from |-> s, data |-> data])>>,
                FALSE)

\* NameTaken that looks for the name in the whole registry
NameTakenAnywhere(st, s, userName) ==
    \E peerId \in DOMAIN st.socketIdToUserName :
        peerId # s /\ st.socketIdToUserName[peerId] = userName

\* the loop of the set-user-name handler: another member holds the name
NameTaken(st, s, userName) ==
    \E peerId \in Range(st.roomIdToSocketIds[st.currentRoomId[s]]) :
        /\ peerId # s
        /\ MapHas(st.socketIdToUserName, peerId)
        /\ st.socketIdToUserName[peerId] = userName

onSetUserName(st, s, userName) ==
    LET cur == st.currentRoomId[s] IN
    IF ~validateUserName(userName)
    THEN Result(st, <<ErrorEvent(s, "username")>>, FALSE)
    \* for (const peerId of undefined) throws
    ELSE IF cur # NULL /\ ~MapHas(st.roomIdToSocketIds, cur)
    THEN Result(st, << >>, TRUE)
    ELSE IF cur # NULL /\ NameTaken(st, s, userName)
    THEN Result(st, <<ErrorEvent(s, "username")>>, FALSE)
    ELSE Result([st EXCEPT !.socketIdToUserName = MapSet(@, s, userName)],
                IF cur # NULL
                THEN <<EmitRoom(st.socketRooms, s, cur, "user-name-set",
                                [socketId |-> s, userName |-> userName]),
                       EmitSelf(s, "user-name-set",
                                [socketId |-> s, userName |-> userName])>>
                ELSE << >>,
                FALSE)

\* ResolveAuthor that takes the author the client supplied
AuthorFromClient(st, s, clientAuthor) ==
    IF clientAuthor # NULL THEN clientAuthor ELSE GuestLabel

\* socketIdToUserName.get(socket.id) || guest label
ResolveAuthor(st, s, clientAuthor) ==
    IF MapHas(st.socketIdToUserName, s) /\ st.socketIdToUserName[s] # NULL
    THEN st.socketIdToUserName[s]
    ELSE GuestLabel

\* msg is the payload: the handler reads its text and timestamp
onChatMessage(st, s, msg, t) ==
    LET author == ResolveAuthor(st, s, msg.author)
        cur == st.currentRoomId[s]
    IN
    IF ~validateMessage(msg.text)
    THEN Result(st, <<ErrorEvent(s, "chat")>>, FALSE)
    ELSE
    LET rate == checkMessageRate(st.userActivity, s, t) IN
    IF ~rate.ok
    THEN Result([st EXCEPT !.userActivity = rate.ua],
                <<ErrorEvent(s, "chat")>>, FALSE)
    ELSE Result([st EXCEPT !.userActivity = rate.ua],
                IF cur # NULL
                THEN <<EmitRoom(st.socketRooms, s, cur, "chat-message",
                                [author |-> author, text |-> msg.text,
                                 timestamp |-> msg.timestamp])>>
                ELSE << >>,
                FALSE)

(***************************************************************************)
(* Actions                                                                 *)
(***************************************************************************)
Apply(res) ==
    /\ currentRoomId' = res.st.currentRoomId
    /\ roomIdToSocketIds' = res.st.roomIdToSocketIds
    /\ socketIdToUserName' = res.st.socketIdToUserName
    /\ userActivity' = res.st.userActivity
    /\ socketRooms' = res.st.socketRooms
    /\ sent' = res.sent

\* the input of a handler: the fields its event carries, the others empty
NoInput ==
    [roomId |-> NULL, to |-> NULL, data |-> "", userName |-> NULL,
     text |-> NULL, timestamp |-> 0, author |-> NULL]

Idle == [op |-> "idle", id |-> NULL, input |-> NoInput, threw |-> FALSE]

Handled(op, s, input, res) ==
    last' = [op |-> op, id |-> s, input |-> input, threw |-> res.threw]

\* the observer's record of a connection: the accepted joins of the current
\* join window and when it began; the chat messages accepted within one
\* message window, how many of them were broadcast to a room, when the
\* first of them was sent and when the last accepted one was sent; whether a
\* join, and whether a chat message, of the connection has been rejected for
\* the ceiling of its window
NoneAccepted ==
    [joins |-> 0, joinStart |-> 0, chats |-> 0, broadcasts |-> 0, chatStart |-> 0,
     lastChat |-> 0, joinRefused |-> FALSE, chatRefused |-> FALSE]

Init ==
    /\ status = [s \in SocketIds |-> "new"]
    /\ currentRoomId = [s \in SocketIds |-> NULL]
    /\ roomIdToSocketIds = EmptyMap
    /\ socketIdToUserName = EmptyMap
    /\ userActivity = EmptyMap
    /\ socketRooms = [s \in SocketIds |-> {}]
    /\ now = 0
    /\ sent = << >>
    /\ last = Idle
    /\ accepted = [s \in SocketIds |-> NoneAccepted]

\* io.on('connection'): the transport puts the socket in the room of its id
onConnection(st, s, t) ==
    Result([st EXCEPT !.currentRoomId[s] = NULL,
                      !.userActivity = initializeUserActivity(@, s, t),
                      !.socketRooms[s] = {s}],
           << >>, FALSE)

Connect(s) ==
    /\ last = Idle
    /\ status[s] = "new"
    /\ status' = [status EXCEPT ![s] = "open"]
    /\ LET res == onConnection(State, s, now)
       IN  Apply(res) /\ Handled("connection", s, NoInput, res)
    /\ UNCHANGED <<now, accepted>>

\* a client sends at most MaxJoins joins that its activity record counts
Join(s, roomId) ==
    /\ last = Idle
    /\ status[s] = "open"
    /\ MapHas(userActivity, s) => userActivity[s].roomJoins < MaxJoins
    /\ LET res == onJoin(State, s, roomId, now)
       IN  Apply(res) /\ Handled("join", s, [NoInput EXCEPT !.roomId = roomId], res)
    /\ UNCHANGED <<status, now, accepted>>

Leave(s, roomId) ==
    /\ last = Idle
    /\ status[s] = "open"
    /\ LET res == onLeave(State, s, roomId)
       IN  Apply(res) /\ Handled("leave", s, [NoInput EXCEPT !.roomId = roomId], res)
    /\ UNCHANGED <<status, now, accepted>>

\* the transport takes the socket out of all its rooms, then emits 'disconnect'
Disconnect(s) ==
    /\ last = Idle
    /\ status[s] = "open"
    /\ status' = [status EXCEPT ![s] = "closed"]
    /\ LET res == onDisconnect([State EXCEPT !.socketRooms[s] = {}], s)
       IN  Apply(res) /\ Handled("disconnect", s, NoInput, res)
    /\ UNCHANGED <<now, accepted>>

Signal(s, to, data) ==
    /\ last = Idle
    /\ status[s] = "open"
    /\ LET res == onSignal(State, s, to, data)
       IN  /\ Apply(res)
           /\ Handled("signal", s, [NoInput EXCEPT !.to = to, !.data = data], res)
    /\ UNCHANGED <<status, now, accepted>>

SetUserName(s, userName) ==
    /\ last = Idle
    /\ status[s] = "open"
    /\ LET res == onSetUserName(State, s, userName)
       IN  /\ Apply(res)
           /\ Handled("set-user-name", s, [NoInput EXCEPT !.userName = userName], res)
    /\ UNCHANGED <<status, now, accepted>>

\* the emissions are delivered and the event loop takes the next event
Deliver ==
    /\ last # Idle
    /\ last' = Idle
    /\ sent' = << >>
    /\ UNCHANGED <<status, currentRoomId, roomIdToSocketIds,
                   socketIdToUserName, userActivity, socketRooms, now, accepted>>

Next ==
    \/ \E s \in SocketIds : Connect(s)
    \/ \E s \in SocketIds, roomId \in RoomIdInputs : Join(s, roomId)
    \/ \E s \in SocketIds, roomId \in RoomIdInputs : Leave(s, roomId)
    \/ \E s \in SocketIds : Disconnect(s)
    \/ \E s \in SocketIds, to \in SignalTargets, data \in DataInputs :
           Signal(s, to, data)
    \/ \E s \in SocketIds, userName \in UserNameInputs : SetUserName(s, userName)
    \/ Deliver

Spec == Init /\ [][Next]_vars

\* the disconnect handler run once more for a connection that has disconnected
DisconnectAgain(s) ==
    /\ last = Idle
    /\ status[s] = "closed"
    /\ LET res == onDisconnect(State, s)
       IN  Apply(res) /\ Handled("disconnect-again", s, NoInput, res)
    /\ UNCHANGED <<status, now, accepted>>

NextRedo ==
    \/ Next
    \/ \E s \in SocketIds : DisconnectAgain(s)

SpecRedo == Init /\ [][NextRedo]_vars

(***************************************************************************)
(* The relay with a moving clock.  The observer counts, for every          *)
(* connection, the joins accepted in its join window and the chat messages *)
(* accepted within one message window.                                     *)
(***************************************************************************)
TimedSockets == {SocketId(i) : i \in 1..MaxTimedSockets}

\* the instants at which events arrive: the start, one message window later,
\* one millisecond after that, and more than one join window after that
Instants == {0, MessageWindowMs, MessageWindowMs + 1,
             MessageWindowMs + JoinWindowMs + 2}

\* the handler sent its caller no error
Accepted(res, s) ==
    /\ ~res.threw
    /\ \A i \in DOMAIN res.sent : res.sent[i].ev # "error"

\* one more accepted join at time t: counted with the earlier ones when at
\* most JoinWindowMs after the first of them
JoinObserved(a, t) ==
    IF a.joins = 0 \/ t - a.joinStart > JoinWindowMs
    THEN [a EXCEPT !.joins = 1, !.joinStart = t]
    ELSE [a EXCEPT !.joins = @ + 1]

\* one more accepted chat message at time t, n = 1 when it was broadcast to
\* a room and 0 when not: counted with the earlier ones when less than
\* MessageWindowMs after the first of them
ChatObserved(a, t, n) ==
    IF a.chats = 0 \/ t - a.chatStart >= MessageWindowMs
    THEN [a EXCEPT !.chats = 1, !.broadcasts = n, !.chatStart = t, !.lastChat = t]
    ELSE [a EXCEPT !.chats = @ + 1, !.broadcasts = @ + n, !.lastChat = t]

\* the minimum spacing does not stop a chat message of s at time t
SpacingPassed(ua, s, t) ==
    MapHas(ua, s) => t - ua[s].lastActivity >= MIN_TIME_BETWEEN_MESSAGES

Tick(t) ==
    /\ last = Idle
    /\ t > now
    /\ now' = t
    /\ UNCHANGED <<status, currentRoomId, roomIdToSocketIds, socketIdToUserName,
                   userActivity, socketRooms, sent, last, accepted>>

\* a client has at most maxJoins joins accepted in a window, and sends many
\* joins or many chat messages, not both
ObservedJoin(s, roomId, maxJoins) ==
    /\ last = Idle
    /\ status[s] = "open"
    /\ accepted[s].joins < maxJoins
    /\ accepted[s].chats <= 1
    /\ LET res == onJoin(State, s, roomId, now)
       IN  /\ Apply(res)
           /\ Handled("join", s, [NoInput EXCEPT !.roomId = roomId], res)
           /\ accepted' = IF Accepted(res, s)
                          THEN [accepted EXCEPT ![s] = JoinObserved(@, now)]
                          ELSE IF ValidRoomId(roomId)
                          THEN [accepted EXCEPT ![s].joinRefused = TRUE]
                          ELSE accepted
    /\ UNCHANGED <<status, now>>

\* a client has at most maxChats chat messages accepted in a window
ObservedChatMessage(s, text, timestamp, author, maxChats) ==
    /\ last = Idle
    /\ status[s] = "open"
    /\ accepted[s].chats < maxChats
    /\ accepted[s].joins <= 1 \/ accepted[s].chats < 1
    /\ LET msg == [text |-> text, timestamp |-> timestamp, author |-> author]
           res == onChatMessage(State, s, msg, now)
       IN  /\ Apply(res)
           /\ Handled("chat-message", s,
                      [NoInput EXCEPT !.text = text, !.timestamp = timestamp,
                                      !.author = author], res)
           /\ accepted' = IF Accepted(res, s)
                          THEN [accepted EXCEPT ![s] = ChatObserved(@, now, Len(res.sent))]
                          ELSE IF validateMessage(text) /\ SpacingPassed(userActivity, s, now)
                          THEN [accepted EXCEPT ![s].chatRefused = TRUE]
                          ELSE accepted
    /\ UNCHANGED <<status, now>>

\* one client that may send up to MaxTimedJoins joins and MaxTimedChats chat
\* messages, over all the instants
NextTimed ==
    \/ \E t \in Instants : Tick(t)
    \/ \E s \in TimedSockets : Connect(s)
    \/ \E s \in TimedSockets, roomId \in RoomIdInputs :
           ObservedJoin(s, roomId, MaxTimedJoins)
    \/ \E s \in TimedSockets, roomId \in RoomIdInputs : Leave(s, roomId)
    \/ \E s \in TimedSockets : Disconnect(s)
    \/ \E s \in TimedSockets, to \in SignalTargets, data \in DataInputs :
           Signal(s, to, data)
    \/ \E s \in TimedSockets, userName \in UserNameInputs : SetUserName(s, userName)
    \/ \E s \in TimedSockets, text \in TextInputs, timestamp \in TimestampInputs,
          author \in AuthorInputs :
           ObservedChatMessage(s, text, timestamp, author, MaxTimedChats)
    \/ Deliver

SpecTimed == Init /\ [][NextTimed]_vars

(***************************************************************************)
(* Peers that chat: the clock passes the minimum spacing, the last peer    *)
(* may send up to MaxTimedJoins joins, the others MaxPeerJoins.            *)
(***************************************************************************)
PeerSockets == {SocketId(i) : i \in 1..MaxPeers}

PeerInstants == {0, MIN_TIME_BETWEEN_MESSAGES}

PeerJoins(s) == IF s = SocketId(MaxPeers) THEN MaxTimedJoins ELSE MaxPeerJoins

NextPeers ==
    \/ \E t \in PeerInstants : Tick(t)
    \/ \E s \in PeerSockets : Connect(s)
    \/ \E s \in PeerSockets, roomId \in RoomIdInputs :
           ObservedJoin(s, roomId, PeerJoins(s))
    \/ \E s \in PeerSockets, roomId \in RoomIdInputs : Leave(s, roomId)
    \/ \E s \in PeerSockets : Disconnect(s)
    \/ \E s \in PeerSockets, to \in SignalTargets, data \in DataInputs :
           Signal(s, to, data)
    \/ \E s \in PeerSockets, userName \in UserNameInputs : SetUserName(s, userName)
    \/ \E s \in PeerSockets, text \in TextInputs, timestamp \in TimestampInputs,
          author \in AuthorInputs :
           ObservedChatMessage(s, text, timestamp, author, MaxPeerChats)
    \/ Deliver

SpecPeers == Init /\ [][NextPeers]_vars

(***************************************************************************)
(* Observations                                                            *)
(***************************************************************************)
Members(rooms, roomId) == IF MapHas(rooms, roomId) THEN Range(rooms[roomId]) ELSE {}

\* how many emissions of out carry event ev with argument arg to socket c
Got(out, c, ev, arg) ==
    Cardinality({i \in DOMAIN out :
                    out[i].ev = ev /\ out[i].arg = arg /\ c \in out[i].to})

\* how many emissions of out carry event ev to socket c
GotAny(out, c, ev) ==
    Cardinality({i \in DOMAIN out : out[i].ev = ev /\ c \in out[i].to})

\* the handler emitted event ev addressed to target
Addressed(out, target, ev) ==
    \E i \in DOMAIN out : out[i].ev = ev /\ out[i].target = target

(***************************************************************************)
(* Claims                                                                  *)
(***************************************************************************)

\* C1: a signal from A addressed to connection B is forwarded to B iff A and B
\* are members of one room when it is handled; otherwise A gets one error of
\* type 'signal' and B gets nothing.
SignalRouted(A, B) ==
    IF SameRoom(roomIdToSocketIds, A, B)
    THEN Addressed(sent, B, "signal")
    ELSE /\ Got(sent, A, "error", [type |-> "signal"]) = 1
         /\ \A i \in DOMAIN sent : sent[i].ev # "error" => B \notin sent[i].to

C1_SignalForwardedIffSameRoom ==
    (last.op = "signal" /\ last.input.to \in SocketIds) =>
        SignalRouted(last.id, last.input.to)

\* C2: after every handler the Directory has no room whose member set is empty.
C2_NoEmptyRoom ==
    \A roomId \in DOMAIN roomIdToSocketIds : Len(roomIdToSocketIds[roomId]) > 0

\* a leave or a disconnect has just removed the last member of a room
C2_Witness ==
    /\ last.op \in {"leave", "disconnect"}
    /\ GotAny(sent, last.id, "peer-left") = 0
    /\ Len(sent) = 1
    /\ sent[1].ev = "peer-left"
    /\ sent[1].target \notin DOMAIN roomIdToSocketIds

\* C3: for every connected c and every room R, c is in the Directory's member
\* set of R iff R is c's current room; a non-null current room has an entry.
C3_MembershipIsCurrentRoom ==
    \A c \in SocketIds :
        status[c] = "open" =>
            /\ \A R \in ValidRoomIds \cup DOMAIN roomIdToSocketIds :
                   c \in Members(roomIdToSocketIds, R) <=> currentRoomId[c] = R
            /\ currentRoomId[c] # NULL => MapHas(roomIdToSocketIds, currentRoomId[c])

\* a connection has left a room that is not its current room and stays a
\* member of its current room
C3_Witness ==
    /\ last.op = "leave"
    /\ ValidRoomId(last.input.roomId)
    /\ currentRoomId[last.id] # NULL
    /\ last.id \in Members(roomIdToSocketIds, currentRoomId[last.id])

\* C4: no connection id is in the member sets of two distinct rooms.
C4_AtMostOneRoom ==
    \A R1 \in DOMAIN roomIdToSocketIds, R2 \in DOMAIN roomIdToSocketIds :
        R1 # R2 =>
            Range(roomIdToSocketIds[R1]) \cap Range(roomIdToSocketIds[R2]) = {}

\* a connection has moved from one room to another, and both rooms exist
C4_Witness ==
    /\ last.op = "join"
    /\ Cardinality(DOMAIN roomIdToSocketIds) >= 2
    /\ \E i \in DOMAIN sent :
           /\ sent[i].ev = "peer-left"
           /\ sent[i].target # last.input.roomId
           /\ sent[i].target \in DOMAIN roomIdToSocketIds

\* C5: an ActivityRecord exists for exactly the connected connections.
C5_ActivityIffConnected ==
    \A c \in SocketIds : MapHas(userActivity, c) <=> status[c] = "open"

\* the room a leave or a disconnect that is being handled takes its socket out of
DepartedRoom == IF last'.op = "leave" THEN last'.input.roomId ELSE currentRoomId[last'.id]

\* C6: when a member of room R disconnects or leaves R, each remaining member
\* of R receives exactly one peer-left naming it, the departing connection and
\* the connections outside R receive none, and R has exactly one member less.
C6_PeerLeftToRemainingMembers ==
    [][(/\ last'.op \in {"leave", "disconnect"}
        /\ last'.id \in Members(roomIdToSocketIds, DepartedRoom))
       => /\ \A c \in SocketIds :
                 Got(sent', c, "peer-left", [socketId |-> last'.id])
                     = IF c \in Members(roomIdToSocketIds, DepartedRoom) \ {last'.id}
                       THEN 1 ELSE 0
          /\ Cardinality(Members(roomIdToSocketIds', DepartedRoom))
                 = Cardinality(Members(roomIdToSocketIds, DepartedRoom)) - 1]_vars

\* C7: a second run of the disconnect handler for one connection changes no
\* state and emits nothing.
C7_DisconnectIdempotent ==
    [][last'.op = "disconnect-again"
       => /\ UNCHANGED <<roomIdToSocketIds, socketIdToUserName, userActivity>>
          /\ sent' = << >>]_vars

\* C8: a disconnected connection is in no member set and has neither a name
\* nor an ActivityRecord; with no connection connected the three maps are empty.
C8_DisconnectPurges ==
    /\ \A c \in SocketIds :
           status[c] = "closed" =>
               /\ \A R \in DOMAIN roomIdToSocketIds : c \notin Range(roomIdToSocketIds[R])
               /\ ~MapHas(socketIdToUserName, c)
               /\ ~MapHas(userActivity, c)
    /\ (\A c \in SocketIds : status[c] # "open") =>
           /\ DOMAIN roomIdToSocketIds = {}
           /\ DOMAIN socketIdToUserName = {}
           /\ DOMAIN userActivity = {}

\* a member of a room has disconnected and a remaining member is told
C8_Witness ==
    /\ last.op = "disconnect"
    /\ \E c \in SocketIds : Got(sent, c, "peer-left", [socketId |-> last.id]) = 1

\* another member of s's current room holds the name n
HeldInRoom(s, n) ==
    \E p \in Members(roomIdToSocketIds, currentRoomId[s]) \ {s} :
        MapHas(socketIdToUserName, p) /\ socketIdToUserName[p] = n

\* some other connection holds the name n
HeldElsewhere(s, n) ==
    \E p \in (DOMAIN socketIdToUserName) \ {s} : socketIdToUserName[p] = n

\* C9: a set-user-name with the name of another member of the setter's current
\* room gets an error of type 'username' and leaves the registry unchanged;
\* the name is accepted when its holders are all outside that room.
C9_NameUniquePerRoom ==
    [][last'.op = "set-user-name"
       => /\ HeldInRoom(last'.id, last'.input.userName)
                => /\ sent' = <<ErrorEvent(last'.id, "username")>>
                   /\ UNCHANGED socketIdToUserName
          /\ (HeldElsewhere(last'.id, last'.input.userName) /\ ~HeldInRoom(last'.id, last'.input.userName))
                => /\ MapHas(socketIdToUserName', last'.id)
                   /\ socketIdToUserName'[last'.id] = last'.input.userName
                   /\ GotAny(sent', last'.id, "error") = 0]_vars

\* a name held by another member of the setter's room has been refused
C9_Witness ==
    /\ last.op = "set-user-name"
    /\ HeldInRoom(last.id, last.input.userName)
    /\ Got(sent, last.id, "error", [type |-> "username"]) = 1

\* C10: a successful set-user-name stores the name and delivers user-name-set
\* {socketId, userName} exactly once to the setter and to every other member
\* of the setter's current room, and to no one else.
C10_NameSetNotifiesRoom ==
    (last.op = "set-user-name" /\ ~last.threw /\ GotAny(sent, last.id, "error") = 0)
        => /\ MapHas(socketIdToUserName, last.id)
           /\ socketIdToUserName[last.id] = last.input.userName
           /\ \A c \in SocketIds :
                  Got(sent, c, "user-name-set",
                      [socketId |-> last.id, userName |-> last.input.userName])
                      = IF \/ c = last.id
                           \/ c \in Members(roomIdToSocketIds, currentRoomId[last.id])
                        THEN 1 ELSE 0

\* C11: after a disconnect, and after a leave of the connection's current
\* room, the registry has no display name for that connection.
C11_NameRemovedOnLeaveAndDisconnect ==
    [][(\/ last'.op = "disconnect"
        \/ /\ last'.op = "leave"
           /\ currentRoomId[last'.id] # NULL
           /\ last'.input.roomId = currentRoomId[last'.id])
       => ~MapHas(socketIdToUserName', last'.id)]_vars

\* the member sequence of a room, in insertion order
MemberSeq(rooms, roomId) == IF MapHas(rooms, roomId) THEN rooms[roomId] ELSE << >>

\* the members of room R before the step, in the order they joined, without s
OthersBefore(s, R) == SelectSeq(MemberSeq(roomIdToSocketIds, R), LAMBDA x : x # s)

\* a join has just been accepted (the joiner got no error)
JoinAccepted == last'.op = "join" /\ GotAny(sent', last'.id, "error") = 0

\* the members that stay in a room over a step keep their relative order
OrderKept ==
    \A R \in (DOMAIN roomIdToSocketIds) \cap (DOMAIN roomIdToSocketIds') :
        LET stay == (Range(roomIdToSocketIds[R]) \cap Range(roomIdToSocketIds'[R]))
                        \ {last'.id}
        IN  SelectSeq(roomIdToSocketIds[R], LAMBDA x : x \in stay)
                = SelectSeq(roomIdToSocketIds'[R], LAMBDA x : x \in stay)

\* C12: on an accepted join of R the joiner receives exactly one peers-list,
\* which lists exactly the other current members of R, without the joiner and
\* without duplicates, in the order they joined (the joiner becomes the last
\* in that order), and every other member of R receives exactly one
\* peer-joined naming the joiner.
C12_JoinListsPeersInOrder ==
    [][/\ OrderKept
       /\ JoinAccepted =>
            LET s == last'.id
                R == last'.input.roomId
            IN  /\ GotAny(sent', s, "peers-list") = 1
                /\ Got(sent', s, "peers-list", [peers |-> OthersBefore(s, R)]) = 1
                /\ Range(OthersBefore(s, R)) = Members(roomIdToSocketIds', R) \ {s}
                /\ Len(OthersBefore(s, R)) = Cardinality(Range(OthersBefore(s, R)))
                /\ MemberSeq(roomIdToSocketIds', R) = Append(OthersBefore(s, R), s)
                /\ \A c \in Members(roomIdToSocketIds', R) \ {s} :
                       /\ Got(sent', c, "peer-joined", [socketId |-> s]) = 1
                       /\ GotAny(sent', c, "peer-joined") = 1]_vars

\* a connection has joined a room of two and got both of them listed
C12_Witness ==
    /\ last.op = "join"
    /\ \E i \in DOMAIN sent :
           /\ sent[i].ev = "peers-list"
           /\ Len(sent[i].arg.peers) = 2
           /\ \A c \in Range(sent[i].arg.peers) :
                  Got(sent, c, "peer-joined", [socketId |-> last.id]) = 1

\* the positions of sent' at which event ev reaches socket c
Positions(out, c, ev) == {i \in DOMAIN out : out[i].ev = ev /\ c \in out[i].to}

\* the emissions of event ev in out, in order
Only(out, ev) == SelectSeq(out, LAMBDA e : e.ev = ev)

\* C13: when a connection in room R is accepted into a different room S, the
\* leave of R comes first: every remaining member of R receives exactly one
\* peer-left for it, the peer-left emission is the one an explicit leave of R
\* makes and precedes the peers-list, R is deleted if it became empty, and
\* afterwards the connection is a member of S and of no other room.
C13_ImplicitLeaveOnRoomChange ==
    [][(/\ JoinAccepted
        /\ currentRoomId[last'.id] # NULL
        /\ currentRoomId[last'.id] # last'.input.roomId)
       => LET s == last'.id
              R == currentRoomId[last'.id]
              S == last'.input.roomId
          IN  /\ \A c \in Members(roomIdToSocketIds, R) \ {s} :
                     Got(sent', c, "peer-left", [socketId |-> s]) = 1
              /\ Only(sent', "peer-left") = onLeave(State, s, R).sent
              /\ Len(sent') >= 2 /\ sent'[1].ev = "peer-left" /\ sent'[2].ev = "peers-list"
              /\ Members(roomIdToSocketIds', R) = Members(roomIdToSocketIds, R) \ {s}
              /\ Members(roomIdToSocketIds, R) = {s} => ~MapHas(roomIdToSocketIds', R)
              /\ \A Q \in DOMAIN roomIdToSocketIds' :
                     s \in Range(roomIdToSocketIds'[Q]) <=> Q = S]_vars

\* a connection has moved to another room, its old room is gone or has told
\* its remaining member
C13_Witness ==
    /\ last.op = "join"
    /\ Len(sent) = 3
    /\ sent[1].ev = "peer-left"
    /\ sent[1].target # last.input.roomId
    /\ sent[1].target \notin DOMAIN roomIdToSocketIds
    /\ currentRoomId[last.id] = last.input.roomId

\* C14: a join of the room R the connection already occupies behaves as a
\* leave of R followed by a join of R: each other member receives one
\* peer-left and then one peer-joined for the connection, the connection
\* receives one peers-list of the other members, and R has the same member
\* set afterwards as before.
C14_RejoinIsLeaveThenJoin ==
    [][(/\ JoinAccepted
        /\ currentRoomId[last'.id] # NULL
        /\ currentRoomId[last'.id] = last'.input.roomId)
       => LET s == last'.id
              R == last'.input.roomId
              others == Members(roomIdToSocketIds, R) \ {s}
              left == onLeave(State, s, R)
              back == onJoin(left.st, s, R, now)
          IN  /\ \A c \in others :
                     /\ Got(sent', c, "peer-left", [socketId |-> s]) = 1
                     /\ Got(sent', c, "peer-joined", [socketId |-> s]) = 1
                     /\ \A i \in Positions(sent', c, "peer-left"),
                           j \in Positions(sent', c, "peer-joined") : i < j
              /\ GotAny(sent', s, "peers-list") = 1
              /\ \E i \in DOMAIN sent' :
                     /\ sent'[i].ev = "peers-list"
                     /\ Range(sent'[i].arg.peers) = others
              /\ Members(roomIdToSocketIds', R) = Members(roomIdToSocketIds, R)
              /\ sent' = left.sent \o back.sent
              /\ roomIdToSocketIds' = back.st.roomIdToSocketIds
              /\ currentRoomId' = back.st.currentRoomId]_vars

\* a connection has joined its own room again and another member was told
\* that it left and joined
C14_Witness ==
    /\ last.op = "join"
    /\ Len(sent) = 3
    /\ sent[1].ev = "peer-left"
    /\ sent[1].target = last.input.roomId
    /\ \E c \in SocketIds \ {last.id} :
           /\ c \in Members(roomIdToSocketIds, last.input.roomId)
           /\ Got(sent, c, "peer-left", [socketId |-> last.id]) = 1
           /\ Got(sent, c, "peer-joined", [socketId |-> last.id]) = 1

\* C15: a leave(roomId) by a connection that is not a member of roomId changes
\* no Directory, name-registry or ActivityRecord state, delivers no event to
\* anyone, and gives the sender no error.
C15_LeaveByNonMemberIsNoOp ==
    [][(/\ last'.op = "leave"
        /\ ValidRoomId(last'.input.roomId)
        /\ last'.id \notin Members(roomIdToSocketIds, last'.input.roomId))
       => /\ UNCHANGED <<roomIdToSocketIds, socketIdToUserName, userActivity>>
          /\ \A i \in DOMAIN sent' : sent'[i].to = {}]_vars

\* C16: in every rolling 60-second interval at most 10 chat messages of one
\* connection are accepted; of 11 sent within one second one is rejected.
C16_ChatRateLimited ==
    \A s \in SocketIds : accepted[s].broadcasts <= MAX_MESSAGES_PER_MINUTE

\* C17: within one join window of a connection at most 5 joins are accepted,
\* whatever other events the connection sent in between.
C17_JoinRateLimited ==
    \A s \in SocketIds : accepted[s].joins <= MAX_ROOMS_PER_HOUR

\* the handler that runs in this step refuses its input: a check of the
\* Validator, of the Tracker, of the same-room rule or of name uniqueness fails
Rejected ==
    LET s == last'.id
        in == last'.input
    IN  \/ /\ last'.op = "join"
           /\ \/ ~ValidRoomId(in.roomId)
              \/ ~checkRoomJoinRate(userActivity, s, now).ok
        \/ /\ last'.op = "leave"
           /\ ~ValidRoomId(in.roomId)
        \/ /\ last'.op = "signal"
           /\ in.to # NULL
           /\ ~SameRoom(roomIdToSocketIds, s, in.to)
        \/ /\ last'.op = "set-user-name"
           /\ \/ ~validateUserName(in.userName)
              \/ HeldInRoom(s, in.userName)
        \/ /\ last'.op = "chat-message"
           /\ \/ ~validateMessage(in.text)
              \/ ~checkMessageRate(userActivity, s, now).ok

\* the error category of an operation
ErrorType(op) ==
    CASE op = "join" -> "room"
      [] op = "leave" -> "room"
      [] op = "signal" -> "signal"
      [] op = "set-user-name" -> "username"
      [] op = "chat-message" -> "chat"

\* C18: a rejected join, leave, signal, set-user-name or chat-message emits
\* one error event, to the offending connection only, whose type matches the
\* operation, and nothing else; the Directory, the current rooms and the name
\* registry are unchanged and so is every other connection's ActivityRecord.
C18_RejectionsAreLocal ==
    [][Rejected
       => /\ Len(sent') = 1
          /\ sent'[1].ev = "error"
          /\ sent'[1].to = {last'.id}
          /\ sent'[1].arg.type = ErrorType(last'.op)
          /\ ~last'.threw
          /\ UNCHANGED <<roomIdToSocketIds, currentRoomId, socketIdToUserName, status>>
          /\ \A c \in SocketIds \ {last'.id} :
                 /\ MapHas(userActivity', c) <=> MapHas(userActivity, c)
                 /\ MapHas(userActivity, c) => userActivity'[c] = userActivity[c]]_vars

\* a join over the hourly ceiling has been refused while another connection
\* sits in a room under a name
C18_Witness ==
    /\ last.op = "join"
    /\ ValidRoomId(last.input.roomId)
    /\ Got(sent, last.id, "error", [type |-> "room"]) = 1
    /\ \E c \in SocketIds \ {last.id} :
           currentRoomId[c] # NULL /\ MapHas(socketIdToUserName, c)

\* C19: an accepted chat message is delivered exactly once to every other
\* member of the sender's current room and to nobody else; from a connection
\* in no room it is delivered to nobody.
C19_ChatReachesRoomOnly ==
    (/\ last.op = "chat-message"
     /\ ~last.threw
     /\ GotAny(sent, last.id, "error") = 0)
        => \A c \in SocketIds :
               GotAny(sent, c, "chat-message")
                   = IF /\ currentRoomId[last.id] # NULL
                        /\ c \in Members(roomIdToSocketIds, currentRoomId[last.id]) \ {last.id}
                     THEN 1 ELSE 0

\* the chat-message emissions of out
ChatBroadcasts(out) == Only(out, "chat-message")

\* C20: the author of every broadcast chat message is the sender's entry in
\* the display-name registry, or the guest label when it has none, and the
\* broadcast is the same whatever author the client supplied.
C20_AuthorResolvedServerSide ==
    [][last'.op = "chat-message"
       => LET s == last'.id
              in == last'.input
          IN  /\ \A i \in DOMAIN ChatBroadcasts(sent') :
                     ChatBroadcasts(sent')[i].arg.author
                         = IF MapHas(socketIdToUserName, s)
                           THEN socketIdToUserName[s]
                           ELSE GuestLabel
              /\ \A a \in AuthorInputs :
                     sent' = onChatMessage(State, s,
                                           [text |-> in.text,
                                            timestamp |-> in.timestamp,
                                            author |-> a], now).sent]_vars

\* a connection without a display name has sent a chat message under the
\* name of another member, who received it under the guest label
C20_Witness ==
    /\ last.op = "chat-message"
    /\ last.input.author # NULL
    /\ ~MapHas(socketIdToUserName, last.id)
    /\ \E c \in Members(roomIdToSocketIds, currentRoomId[last.id]) \ {last.id} :
           /\ MapHas(socketIdToUserName, c)
           /\ socketIdToUserName[c] = last.input.author
           /\ Got(sent, c, "chat-message",
                  [author |-> GuestLabel, text |-> last.input.text,
                   timestamp |-> last.input.timestamp]) = 1

\* the room id rule in the words of the specification: 3 to 32 characters,
\* each a letter, a digit, a hyphen or an underscore
RoomIdRule(id) ==
    /\ Len(id) >= 3
    /\ Len(id) <= 32
    /\ \A i \in 1..Len(id) : id[i] \in Letters \cup Digits \cup {"-", "_"}

\* C21: every room key of the Directory is a valid room id; a join with an
\* invalid id ("ab" is one, "room_1" is none) gets one error of type 'room'
\* and creates no room, and a join with a valid id that the join ceiling does
\* not stop is accepted and puts the joiner in that room.
C21_RoomKeysAreValid ==
    [][/\ \A R \in DOMAIN roomIdToSocketIds' : RoomIdRule(R)
       /\ ~RoomIdRule(<<"a", "b">>)
       /\ RoomIdRule(<<"r", "o", "o", "m", "_", "1">>)
       /\ last'.op = "join" =>
            IF RoomIdRule(last'.input.roomId)
            THEN checkRoomJoinRate(userActivity, last'.id, now).ok
                     => /\ GotAny(sent', last'.id, "error") = 0
                        /\ last'.id \in Members(roomIdToSocketIds', last'.input.roomId)
            ELSE /\ Len(sent') = 1
                 /\ sent'[1].ev = "error"
                 /\ sent'[1].arg.type = "room"
                 /\ sent'[1].to = {last'.id}
                 /\ UNCHANGED roomIdToSocketIds]_vars

\* a connection that sits in a room has sent a join with the id "ab"
C21_Witness ==
    /\ last.op = "join"
    /\ last.input.roomId = <<"a", "b">>
    /\ Got(sent, last.id, "error", [type |-> "room"]) = 1
    /\ currentRoomId[last.id] # NULL
    /\ DOMAIN roomIdToSocketIds # {}

\* C22: every signal the relay forwards is delivered exactly once, to the
\* addressed connection and to no other, with from equal to the id of the
\* connection that sent it and data equal to the data received.
C22_SignalDeliveredOnceToTargetOnly ==
    (last.op = "signal" /\ Addressed(sent, last.input.to, "signal")) =>
        \A c \in SocketIds :
            /\ GotAny(sent, c, "signal") = IF c = last.input.to THEN 1 ELSE 0
            /\ Got(sent, c, "signal",
                   [from |-> last.id, data |-> last.input.data])
                   = IF c = last.input.to THEN 1 ELSE 0

\* C23: two accepted chat messages of one connection are never less than
\* MIN_TIME_BETWEEN_MESSAGES ms apart: a chat message that arrives sooner
\* after the connection's last accepted one is rejected.
C23_AcceptedChatsAreSpaced ==
    [][\A s \in SocketIds :
           (/\ last'.op = "chat-message"
            /\ last'.id = s
            /\ accepted[s].chats > 0
            /\ accepted'[s] # accepted[s])
               => now - accepted[s].lastChat >= MIN_TIME_BETWEEN_MESSAGES]_vars

\* C24: no two distinct members of one room hold the same display name,
\* whatever the order of set-user-name and join.
C24_NamesUniqueInRoom ==
    \A R \in DOMAIN roomIdToSocketIds :
        \A a, b \in Members(roomIdToSocketIds, R) :
            (/\ a # b
             /\ MapHas(socketIdToUserName, a)
             /\ MapHas(socketIdToUserName, b))
                => socketIdToUserName[a] # socketIdToUserName[b]

\* the accepted joins that count against a join at time t
JoinsInWindow(a, t) ==
    IF a.joins = 0 \/ t - a.joinStart > JoinWindowMs THEN 0 ELSE a.joins

\* handling a chat message leaves the join count and the join window start
\* of the sender's record alone, handling a join leaves its message count,
\* message window start and last activity alone
RateFieldsFramed(s) ==
    /\ (last'.op = "chat-message" /\ last'.id = s /\ MapHas(userActivity, s)) =>
           /\ MapHas(userActivity', s)
           /\ userActivity'[s].roomJoins = userActivity[s].roomJoins
           /\ userActivity'[s].lastRoomJoinReset = userActivity[s].lastRoomJoinReset
    /\ (last'.op = "join" /\ last'.id = s /\ MapHas(userActivity, s)) =>
           /\ MapHas(userActivity', s)
           /\ userActivity'[s].messageCount = userActivity[s].messageCount
           /\ userActivity'[s].lastMessageReset = userActivity[s].lastMessageReset
           /\ userActivity'[s].lastActivity = userActivity[s].lastActivity

C26_RejectionIsNotPermanent ==
    [][\A s \in SocketIds :
           /\ (/\ last'.op = "join"
               /\ last'.id = s
               /\ accepted[s].joinRefused
               /\ RoomIdRule(last'.input.roomId)
               /\ MapHas(userActivity, s)
               /\ now - userActivity[s].lastRoomJoinReset > 3600000)
                  => /\ GotAny(sent', s, "error") = 0
                     /\ s \in Members(roomIdToSocketIds', last'.input.roomId)
           /\ (/\ last'.op = "chat-message"
               /\ last'.id = s
               /\ accepted[s].chatRefused
               /\ last'.input.text = <<"h", "i">>
               /\ MapHas(userActivity, s)
               /\ now - userActivity[s].lastMessageReset > 60000)
                  => /\ GotAny(sent', s, "error") = 0
                     /\ accepted'[s].chats = accepted[s].chats + 1
                            \/ accepted'[s].chats = 1]_vars

\* a connection that had a join rejected for the ceiling has, more than a
\* join window later, a join accepted as the first of a new window
C26_Witness ==
    \E s \in SocketIds :
        /\ accepted[s].joinRefused
        /\ last.op = "join"
        /\ last.id = s
        /\ GotAny(sent, s, "error") = 0
        /\ MapHas(userActivity, s)
        /\ userActivity[s].roomJoins = 1
        /\ userActivity[s].lastRoomJoinReset = now
        /\ now > JoinWindowMs

\* C27: no inbound event makes its handler raise an exception, whatever the
\* payload; a signal with absent data to a target in the sender's room
\* included.
C27_NoHandlerThrows == ~last.threw

\* C28: a join rejected for its room id or for the join ceiling performs no
\* implicit leave: the connection stays a member of the room it was in, the
\* Directory is unchanged, and no peer-left, peer-joined or peers-list is
\* emitted.
C28_RejectedJoinLeavesNothing ==
    [][\A s \in SocketIds :
           (/\ last'.op = "join"
            /\ last'.id = s
            /\ \/ ~RoomIdRule(last'.input.roomId)
               \/ GotAny(sent', s, "error") > 0)
               => /\ UNCHANGED <<roomIdToSocketIds, currentRoomId, socketRooms>>
                  /\ \A i \in DOMAIN sent' :
                         sent'[i].ev \notin {"peer-left", "peer-joined", "peers-list"}]_vars

\* a member of a room has had a join with a valid id rejected for the ceiling
C28_Witness ==
    \E s \in SocketIds :
        /\ last.op = "join"
        /\ last.id = s
        /\ RoomIdRule(last.input.roomId)
        /\ GotAny(sent, s, "error") = 1
        /\ currentRoomId[s] # NULL
        /\ s \in Members(roomIdToSocketIds, currentRoomId[s])
        /\ currentRoomId[s] \in socketRooms[s]

\* C29: after every handler the transport broadcast group of each room of
\* the Directory is the Directory's member set of that room restricted to
\* the connected connections.
C29_TransportGroupIsMemberSet ==
    \A R \in DOMAIN roomIdToSocketIds :
        InRoom(socketRooms, R)
            = {c \in Members(roomIdToSocketIds, R) : status[c] = "open"}

\* how often the peers-list emissions of out name peer d to socket c
Listed(out, c, d) ==
    Cardinality({<<i, k>> \in (DOMAIN out) \X (1..MaxSockets) :
                    /\ out[i].ev = "peers-list"
                    /\ c \in out[i].to
                    /\ k \in DOMAIN out[i].arg.peers
                    /\ out[i].arg.peers[k] = d})

\* C30: of two members of one room exactly one learned of the other through
\* its peers-list and the other through peer-joined, under every
\* interleaving of joins.  Peers are introduced by accepted joins only, and
\* the accepted join of s introduces s and every other member d of the room
\* once: s, the later joiner, finds d once in its peers-list and gets no
\* peer-joined; d, the earlier member, gets one peer-joined naming s and no
\* peers-list.
C30_PeersIntroducedOnce ==
    [][/\ (\E i \in DOMAIN sent' : sent'[i].ev \in {"peers-list", "peer-joined"})
              => /\ last'.op = "join"
                 /\ GotAny(sent', last'.id, "error") = 0
       /\ \A s \in SocketIds :
              (/\ last'.op = "join"
               /\ last'.id = s
               /\ GotAny(sent', s, "error") = 0)
                  => \A d \in Members(roomIdToSocketIds', last'.input.roomId) \ {s} :
                         /\ Listed(sent', s, d) = 1
                         /\ GotAny(sent', s, "peer-joined") = 0
                         /\ Got(sent', d, "peer-joined", [socketId |-> s]) = 1
                         /\ GotAny(sent', d, "peer-joined") = 1
                         /\ GotAny(sent', d, "peers-list") = 0
                         /\ Listed(sent', d, s) = 0]_vars

\* a connection has joined a room that another connection joined before it
\* and a third joined before that one
C30_Witness ==
    \E R \in DOMAIN roomIdToSocketIds :
        /\ Len(roomIdToSocketIds[R]) = 3
        /\ last.op = "join"
        /\ last.input.roomId = R
        /\ roomIdToSocketIds[R][3] = last.id
        /\ Listed(sent, last.id, roomIdToSocketIds[R][1]) = 1
        /\ Listed(sent, last.id, roomIdToSocketIds[R][2]) = 1
        /\ Got(sent, roomIdToSocketIds[R][1], "peer-joined", [socketId |-> last.id]) = 1
        /\ Got(sent, roomIdToSocketIds[R][2], "peer-joined", [socketId |-> last.id]) = 1

====
